---- MODULE Spec2Model ----
(***************************************************************************)
(* BlockingQueue<T> of Cpp11-BlockingQueue.h: a std::queue<T> q_ guarded   *)
(* by a std::mutex mtx_ and a std::condition_variable cv_, used by several *)
(* threads.  A step of a thread is one basic block of the operation it is  *)
(* executing, cut where a lock is acquired or released; pc[t] is the block *)
(* thread t executes next.                                                 *)
(***************************************************************************)
EXTENDS Integers, Sequences, FiniteSets, TLC

\* ---------------------------------------------------------------- bounds
NThreads == 3
NValues == 2
MaxCalls == 3

Threads == 1..NThreads
Values == 1..NValues
Insts == {"A", "B"}

\* The demonstration enqueues msg#0 .. msg#14 and then the sentinel "quit", a
\* value that is none of its messages.
NMsgs == 15
Quit == NMsgs + 1

NoThread == 0
NoInst == "-"
NoRet == <<"none", 0>>

VARIABLES
  q,        \* q[i]: the elements of instance i's q_, front first
  mtx,      \* mtx[i]: the thread that holds instance i's mtx_, or NoThread
  cv,       \* cv[i]: the threads blocked in instance i's cv_
  alive,    \* the instances that have been constructed
  pc,       \* pc[t]: the block thread t executes next
  self,     \* self[t]: the instance (this) of the call thread t is in
  val,      \* val[t]: the argument t of the enQ call thread t is in
  bq,       \* bq[t]: the argument bq of the move thread t is in
  ret,      \* ret[t]: what the last call of thread t returned
  calls,    \* the number of calls made so far
  enqLog,   \* enqLog[i]: the values pushed onto q[i] by enQ, in order
  deqLog,   \* deqLog[i]: the values deQ calls on i have returned, in order
  mark,     \* mark[t]: Len(enqLog) when the last deQ of t found q_ empty, else -1
  moved,    \* moved[t]: q_ of bq when thread t called the move it is in
  ub        \* the operations that have called front() or pop() on an empty q_

vars == <<q, mtx, cv, alive, pc, self, val, bq, ret, calls, enqLog, deqLog, mark, moved, ub>>

\* ------------------------------------------------------- std::queue<T>
\* push at the wrong end
PushFront(s, v) == <<v>> \o s
Push(s, v) == Append(s, v)
\* the other end of the queue
Back(s) == s[Len(s)]
Front(s) == Head(s)
\* the element is read but not removed
PopKeep(s) == s
Pop(s) == Tail(s)
Size(s) == Len(s)

Range(s) == {s[k] : k \in 1..Len(s)}

\* ---------------------------------------------------------------- state
TypeOK ==
  /\ q \in [Insts -> Seq(Values \cup 1..Quit)]
  /\ mtx \in [Insts -> Threads \cup {NoThread}]
  /\ cv \in [Insts -> SUBSET Threads]
  /\ alive \subseteq Insts
  /\ self \in [Threads -> Insts \cup {NoInst}]
  /\ bq \in [Threads -> Insts \cup {NoInst}]
  /\ val \in [Threads -> Values \cup 0..Quit]
  /\ calls \in Nat
  /\ ub \subseteq {"deQ", "front", "clear", "move"}

Init ==
  /\ q = [i \in Insts |-> <<>>]
  /\ mtx = [i \in Insts |-> NoThread]
  /\ cv = [i \in Insts |-> {}]
  /\ alive = {"A"}
  /\ pc = [t \in Threads |-> "idle"]
  /\ self = [t \in Threads |-> NoInst]
  /\ val = [t \in Threads |-> 0]
  /\ bq = [t \in Threads |-> NoInst]
  /\ ret = [t \in Threads |-> NoRet]
  /\ calls = 0
  /\ enqLog = [i \in Insts |-> <<>>]
  /\ deqLog = [i \in Insts |-> <<>>]
  /\ mark = [t \in Threads |-> -1]
  /\ moved = [t \in Threads |-> <<>>]
  /\ ub = {}

\* The values some enQ call has been given so far.
Sent ==
  UNION {Range(enqLog[i]) : i \in Insts}
    \cup {val[t] : t \in {u \in Threads : pc[u] \in {"enq_lock", "enq_push"}}}

\* Thread t calls an operation of instance i with arguments v (enQ) and s
\* (the moves); first is the first block of the operation.
Call(t, i, v, s, first) ==
  /\ pc[t] = "idle"
  /\ calls' = calls + 1
  /\ pc' = [pc EXCEPT ![t] = first]
  /\ self' = [self EXCEPT ![t] = i]
  /\ val' = [val EXCEPT ![t] = v]
  /\ bq' = [bq EXCEPT ![t] = s]
  /\ ret' = [ret EXCEPT ![t] = NoRet]
  /\ mark' = [mark EXCEPT ![t] = -1]

\* Thread t goes on to block l of the call it is in.
Goto(t, l) ==
  /\ pc' = [pc EXCEPT ![t] = l]
  /\ UNCHANGED <<self, val, bq, ret>>

\* The call of thread t ends with result r; its frame is gone.
Leave(t, r) ==
  /\ self' = [self EXCEPT ![t] = NoInst]
  /\ val' = [val EXCEPT ![t] = 0]
  /\ bq' = [bq EXCEPT ![t] = NoInst]
  /\ ret' = [ret EXCEPT ![t] = r]

Return(t, r) ==
  /\ pc' = [pc EXCEPT ![t] = "idle"]
  /\ Leave(t, r)

\* std::lock_guard / std::unique_lock constructor: blocks until mtx_ is free.
Lock(t, i) ==
  /\ mtx[i] = NoThread
  /\ mtx' = [mtx EXCEPT ![i] = t]

\* The destructor of the lock object, at the end of its scope.
Unlock(t, i) == mtx' = [mtx EXCEPT ![i] = NoThread]

\* ------------------------------------------------------------------ enQ
EnqCall(t, i, v) ==
  /\ i \in alive
  /\ v \notin Sent
  /\ Call(t, i, v, NoInst, "enq_lock")
  /\ UNCHANGED <<q, mtx, cv, alive, enqLog, deqLog, moved, ub>>

EnqLock(t) ==
  /\ pc[t] = "enq_lock"
  /\ Lock(t, self[t])
  /\ Goto(t, "enq_push")
  /\ UNCHANGED <<q, cv, alive, calls, enqLog, deqLog, mark, moved, ub>>

\* the unique_lock is not released after the push
EnqPushHeld(t) ==
  /\ pc[t] = "enq_push"
  /\ q' = [q EXCEPT ![self[t]] = Push(@, val[t])]
  /\ enqLog' = [enqLog EXCEPT ![self[t]] = Append(@, val[t])]
  /\ Goto(t, "enq_notify")
  /\ UNCHANGED <<mtx, cv, alive, calls, deqLog, mark, moved, ub>>

\* q_.push(std::move(t)); the unique_lock's scope ends.
EnqPush(t) ==
  /\ pc[t] = "enq_push"
  /\ q' = [q EXCEPT ![self[t]] = Push(@, val[t])]
  /\ enqLog' = [enqLog EXCEPT ![self[t]] = Append(@, val[t])]
  /\ Unlock(t, self[t])
  /\ Goto(t, "enq_notify")
  /\ UNCHANGED <<cv, alive, calls, deqLog, mark, moved, ub>>

\* no notification is sent
NotifyNone(t, i) ==
  /\ pc' = [pc EXCEPT ![t] = "idle"]
  /\ UNCHANGED cv

\* notify_all(): unblocks every thread blocked in cv_
NotifyAll(t, i) ==
  /\ cv' = [cv EXCEPT ![i] = {}]
  /\ pc' = [u \in Threads |->
             IF u = t THEN "idle" ELSE IF u \in cv[i] THEN "deq_relock" ELSE pc[u]]

\* cv_.notify_one(): unblocks one of the threads blocked in cv_, if any.
NotifyOne(t, i) ==
  IF cv[i] = {}
    THEN /\ pc' = [pc EXCEPT ![t] = "idle"]
         /\ UNCHANGED cv
    ELSE \E w \in cv[i] :
           /\ cv' = [cv EXCEPT ![i] = @ \ {w}]
           /\ pc' = [pc EXCEPT ![t] = "idle", ![w] = "deq_relock"]

EnqNotify(t) ==
  /\ pc[t] = "enq_notify"
  /\ NotifyOne(t, self[t])
  /\ Leave(t, <<"enQ", 0>>)
  /\ UNCHANGED <<q, mtx, alive, calls, enqLog, deqLog, mark, moved, ub>>

\* ------------------------------------------------------------------ deQ
DeqCall(t, i) ==
  /\ i \in alive
  /\ Call(t, i, 0, NoInst, "deq_lock")
  /\ UNCHANGED <<q, mtx, cv, alive, enqLog, deqLog, moved, ub>>

DeqLock(t) ==
  /\ pc[t] = "deq_lock"
  /\ Lock(t, self[t])
  /\ Goto(t, "deq_if")
  /\ UNCHANGED <<q, cv, alive, calls, enqLog, deqLog, mark, moved, ub>>

\* if(q_.size() > 0)
DeqIf(t) ==
  /\ pc[t] = "deq_if"
  /\ IF Size(q[self[t]]) > 0
       THEN /\ Goto(t, "deq_fast")
            /\ UNCHANGED mark
       ELSE /\ Goto(t, "deq_while")
            /\ mark' = [mark EXCEPT ![t] = Len(enqLog[self[t]])]
  /\ UNCHANGED <<q, mtx, cv, alive, calls, enqLog, deqLog, moved, ub>>

\* T temp = std::move(q_.front()); q_.pop(); return temp;
\* front() and pop() of an empty std::queue are undefined: any value may come
\* back.
Take(t) ==
  /\ IF Size(q[self[t]]) > 0
       THEN /\ Return(t, <<"deQ", Front(q[self[t]])>>)
            /\ deqLog' = [deqLog EXCEPT ![self[t]] = Append(@, Front(q[self[t]]))]
            /\ q' = [q EXCEPT ![self[t]] = Pop(@)]
            /\ UNCHANGED ub
       ELSE /\ \E v \in Values \cup {0} :
                 /\ Return(t, <<"deQ", v>>)
                 /\ deqLog' = [deqLog EXCEPT ![self[t]] = Append(@, v)]
            /\ ub' = ub \cup {"deQ"}
            /\ UNCHANGED q
  /\ Unlock(t, self[t])

DeqFast(t) ==
  /\ pc[t] = "deq_fast"
  /\ Take(t)
  /\ UNCHANGED <<cv, alive, calls, enqLog, mark, moved>>

\* while (q_.size() == 0)
DeqWhile(t) ==
  /\ pc[t] = "deq_while"
  /\ Goto(t, IF Size(q[self[t]]) = 0 THEN "deq_pred" ELSE "deq_slow")
  /\ UNCHANGED <<q, mtx, cv, alive, calls, enqLog, deqLog, mark, moved, ub>>

\* the thread blocks in cv_ with the mutex still locked
WaitPredHeld(t) ==
  IF Size(q[self[t]]) > 0
    THEN /\ Goto(t, "deq_while")
         /\ UNCHANGED <<mtx, cv>>
    ELSE /\ Goto(t, "deq_wait")
         /\ cv' = [cv EXCEPT ![self[t]] = @ \cup {t}]
         /\ UNCHANGED mtx

\* the lock is released in one step and the thread blocks in cv_ in the next
WaitPredGap(t) ==
  IF mtx[self[t]] # t
    THEN /\ Goto(t, "deq_wait")
         /\ cv' = [cv EXCEPT ![self[t]] = @ \cup {t}]
         /\ UNCHANGED mtx
    ELSE IF Size(q[self[t]]) > 0
      THEN /\ Goto(t, "deq_while")
           /\ UNCHANGED <<mtx, cv>>
      ELSE /\ Goto(t, "deq_pred")
           /\ Unlock(t, self[t])
           /\ UNCHANGED cv

\* cv_.wait(l, pred) is while (!pred()) wait(l): with the lock held, test
\* q_.size() > 0; if it fails, release the lock and block in cv_ in one step.
WaitPred(t) ==
  IF Size(q[self[t]]) > 0
    THEN /\ Goto(t, "deq_while")
         /\ UNCHANGED <<mtx, cv>>
    ELSE /\ Goto(t, "deq_wait")
         /\ cv' = [cv EXCEPT ![self[t]] = @ \cup {t}]
         /\ Unlock(t, self[t])

DeqPred(t) ==
  /\ pc[t] = "deq_pred"
  /\ WaitPred(t)
  /\ UNCHANGED <<q, alive, calls, enqLog, deqLog, mark, moved, ub>>

\* a thread unblocked without a notification takes the mutex and the front,
\* without testing q_.size()
SpuriousTake(t) ==
  /\ pc[t] = "deq_wait"
  /\ t \in cv[self[t]]
  /\ cv' = [cv EXCEPT ![self[t]] = @ \ {t}]
  /\ Lock(t, self[t])
  /\ Goto(t, "deq_slow")
  /\ UNCHANGED <<q, alive, calls, enqLog, deqLog, mark, moved, ub>>

\* A thread blocked in cv_ may be unblocked without any notification.
Spurious(t) ==
  /\ pc[t] = "deq_wait"
  /\ t \in cv[self[t]]
  /\ cv' = [cv EXCEPT ![self[t]] = @ \ {t}]
  /\ Goto(t, "deq_relock")
  /\ UNCHANGED <<q, mtx, alive, calls, enqLog, deqLog, mark, moved, ub>>

\* wait(l) without the predicate: the unblocked thread takes the front at once
DeqRelockNoRecheck(t) ==
  /\ pc[t] = "deq_relock"
  /\ Lock(t, self[t])
  /\ Goto(t, "deq_slow")
  /\ UNCHANGED <<q, cv, alive, calls, enqLog, deqLog, mark, moved, ub>>

\* An unblocked thread reacquires the lock before wait(l) returns.
DeqRelock(t) ==
  /\ pc[t] = "deq_relock"
  /\ Lock(t, self[t])
  /\ Goto(t, "deq_pred")
  /\ UNCHANGED <<q, cv, alive, calls, enqLog, deqLog, mark, moved, ub>>

DeqSlow(t) ==
  /\ pc[t] = "deq_slow"
  /\ Take(t)
  /\ UNCHANGED <<cv, alive, calls, enqLog, mark, moved>>

\* ---------------------------------------------------------------- front
FrontCall(t, i) ==
  /\ i \in alive
  /\ Call(t, i, 0, NoInst, "front_lock")
  /\ UNCHANGED <<q, mtx, cv, alive, enqLog, deqLog, moved, ub>>

FrontLock(t) ==
  /\ pc[t] = "front_lock"
  /\ Lock(t, self[t])
  /\ Goto(t, "front_if")
  /\ UNCHANGED <<q, cv, alive, calls, enqLog, deqLog, mark, moved, ub>>

\* if(q_.size() > 0)
FrontIf(t) ==
  /\ pc[t] = "front_if"
  /\ Goto(t, IF Size(q[self[t]]) > 0 THEN "front_ret" ELSE "front_throw")
  /\ UNCHANGED <<q, mtx, cv, alive, calls, enqLog, deqLog, mark, moved, ub>>

\* return q_.front(); the lock_guard is destroyed on the way out.
FrontRet(t) ==
  /\ pc[t] = "front_ret"
  /\ IF Size(q[self[t]]) > 0
       THEN /\ Return(t, <<"front", Front(q[self[t]])>>)
            /\ UNCHANGED ub
       ELSE /\ \E v \in Values \cup {0} : Return(t, <<"front", v>>)
            /\ ub' = ub \cup {"front"}
  /\ Unlock(t, self[t])
  /\ UNCHANGED <<q, cv, alive, calls, enqLog, deqLog, mark, moved>>

\* the exception leaves front() with the mutex still locked
FrontThrowHeld(t) ==
  /\ pc[t] = "front_throw"
  /\ Return(t, <<"throw", 0>>)
  /\ UNCHANGED <<q, mtx, cv, alive, calls, enqLog, deqLog, mark, moved, ub>>

\* throw std::exception("attempt to access empty queue"); the lock_guard is
\* destroyed as the exception leaves front().
FrontThrow(t) ==
  /\ pc[t] = "front_throw"
  /\ Return(t, <<"throw", 0>>)
  /\ Unlock(t, self[t])
  /\ UNCHANGED <<q, cv, alive, calls, enqLog, deqLog, mark, moved, ub>>

\* ---------------------------------------------------------------- clear
ClearCall(t, i) ==
  /\ i \in alive
  /\ Call(t, i, 0, NoInst, "clear_lock")
  /\ UNCHANGED <<q, mtx, cv, alive, enqLog, deqLog, moved, ub>>

ClearLock(t) ==
  /\ pc[t] = "clear_lock"
  /\ Lock(t, self[t])
  /\ Goto(t, "clear_loop")
  /\ UNCHANGED <<q, cv, alive, calls, enqLog, deqLog, mark, moved, ub>>

\* clear() ends with cv_.notify_one()
ClearLoopNotify(t) ==
  /\ pc[t] = "clear_loop"
  /\ IF Size(q[self[t]]) > 0
       THEN /\ Goto(t, "clear_pop")
            /\ UNCHANGED <<mtx, cv>>
       ELSE /\ NotifyOne(t, self[t])
            /\ Leave(t, <<"clear", 0>>)
            /\ Unlock(t, self[t])
  /\ UNCHANGED <<q, alive, calls, enqLog, deqLog, mark, moved, ub>>

\* while (q_.size() > 1)
ClearLoopLeaveOne(t) ==
  /\ pc[t] = "clear_loop"
  /\ IF Size(q[self[t]]) > 1
       THEN /\ Goto(t, "clear_pop")
            /\ UNCHANGED mtx
       ELSE /\ Return(t, <<"clear", 0>>)
            /\ Unlock(t, self[t])
  /\ UNCHANGED <<q, cv, alive, calls, enqLog, deqLog, mark, moved, ub>>

\* while (q_.size() > 0); leaving the loop ends clear() and destroys the
\* lock_guard.
ClearLoop(t) ==
  /\ pc[t] = "clear_loop"
  /\ IF Size(q[self[t]]) > 0
       THEN /\ Goto(t, "clear_pop")
            /\ UNCHANGED mtx
       ELSE /\ Return(t, <<"clear", 0>>)
            /\ Unlock(t, self[t])
  /\ UNCHANGED <<q, cv, alive, calls, enqLog, deqLog, mark, moved, ub>>

\* q_.pop() of instance i by operation op; pop() of an empty std::queue is
\* undefined.
PopOf(i, op) ==
  IF Size(q[i]) > 0
    THEN /\ q' = [q EXCEPT ![i] = Pop(@)]
         /\ UNCHANGED ub
    ELSE /\ ub' = ub \cup {op}
         /\ UNCHANGED q

ClearPop(t) ==
  /\ pc[t] = "clear_pop"
  /\ PopOf(self[t], "clear")
  /\ Goto(t, "clear_loop")
  /\ UNCHANGED <<mtx, cv, alive, calls, enqLog, deqLog, mark, moved>>

\* ----------------------------------------------------------------- size
SizeCall(t, i) ==
  /\ i \in alive
  /\ Call(t, i, 0, NoInst, "size_lock")
  /\ UNCHANGED <<q, mtx, cv, alive, enqLog, deqLog, moved, ub>>

SizeLock(t) ==
  /\ pc[t] = "size_lock"
  /\ Lock(t, self[t])
  /\ Goto(t, "size_body")
  /\ UNCHANGED <<q, cv, alive, calls, enqLog, deqLog, mark, moved, ub>>

\* return !q_.empty();
SizeBodyEmpty(t) ==
  /\ pc[t] = "size_body"
  /\ Return(t, <<"size", IF Size(q[self[t]]) > 0 THEN 1 ELSE 0>>)
  /\ Unlock(t, self[t])
  /\ UNCHANGED <<q, cv, alive, calls, enqLog, deqLog, mark, moved, ub>>

\* return q_.size();
SizeBody(t) ==
  /\ pc[t] = "size_body"
  /\ Return(t, <<"size", Size(q[self[t]])>>)
  /\ Unlock(t, self[t])
  /\ UNCHANGED <<q, cv, alive, calls, enqLog, deqLog, mark, moved, ub>>

\* ---------------------------------------------------------- constructors
\* The instances some thread is move-constructing.
Building == {self[t] : t \in {u \in Threads : pc[u] \in {"mc_lock", "mc_copy", "mc_loop", "mc_pop"}}}

\* BlockingQueue() {}
Ctor(t, d) ==
  /\ pc[t] = "idle"
  /\ d \notin alive \cup Building
  /\ alive' = alive \cup {d}
  /\ UNCHANGED <<q, mtx, cv, pc, self, val, bq, ret, calls, enqLog, deqLog, mark, moved, ub>>

\* BlockingQueue(BlockingQueue<T>&& bq): d is the instance being constructed.
MoveCtorCall(t, d, s) ==
  /\ d \notin alive \cup Building
  /\ s \in alive
  /\ Call(t, d, 0, s, "mc_lock")
  /\ moved' = [moved EXCEPT ![t] = q[s]]
  /\ UNCHANGED <<q, mtx, cv, alive, enqLog, deqLog, ub>>

\* std::lock_guard<std::mutex> l(mtx_): the mutex of this, not of bq.
McLock(t) ==
  /\ pc[t] = "mc_lock"
  /\ Lock(t, self[t])
  /\ Goto(t, "mc_copy")
  /\ UNCHANGED <<q, cv, alive, calls, enqLog, deqLog, mark, moved, ub>>

\* the elements of bq are appended to those of this
CopyQAppend(t) == q' = [q EXCEPT ![self[t]] = @ \o q[bq[t]]]

\* q_ = bq.q_;
CopyQ(t) == q' = [q EXCEPT ![self[t]] = q[bq[t]]]

McCopy(t) ==
  /\ pc[t] = "mc_copy"
  /\ CopyQ(t)
  /\ Goto(t, "mc_loop")
  /\ UNCHANGED <<mtx, cv, alive, calls, enqLog, deqLog, mark, moved, ub>>

\* while (bq.q_.size() > 0); leaving the loop ends the constructor.
McLoop(t) ==
  /\ pc[t] = "mc_loop"
  /\ IF Size(q[bq[t]]) > 0
       THEN /\ Goto(t, "mc_pop")
            /\ UNCHANGED <<mtx, alive, moved>>
       ELSE /\ Return(t, <<"ctor", 0>>)
            /\ Unlock(t, self[t])
            /\ alive' = alive \cup {self[t]}
            /\ moved' = [moved EXCEPT ![t] = <<>>]
  /\ UNCHANGED <<q, cv, calls, enqLog, deqLog, mark, ub>>

\* bq.q_.pop();
McPop(t) ==
  /\ pc[t] = "mc_pop"
  /\ PopOf(bq[t], "move")
  /\ Goto(t, "mc_loop")
  /\ UNCHANGED <<mtx, cv, alive, calls, enqLog, deqLog, mark, moved>>

\* ------------------------------------------------------ move assignment
\* d = std::move(s)
MoveAssignCall(t, d, s) ==
  /\ d \in alive
  /\ s \in alive
  /\ Call(t, d, 0, s, "ma_self")
  /\ moved' = [moved EXCEPT ![t] = q[s]]
  /\ UNCHANGED <<q, mtx, cv, alive, enqLog, deqLog, ub>>

\* no test for this == &bq
MaSelfNoCheck(t) ==
  /\ pc[t] = "ma_self"
  /\ Goto(t, "ma_lock")
  /\ UNCHANGED <<q, mtx, cv, alive, calls, enqLog, deqLog, mark, moved, ub>>

\* if (this == &bq) return *this;
MaSelf(t) ==
  /\ pc[t] = "ma_self"
  /\ IF self[t] = bq[t]
       THEN /\ Return(t, <<"assign", 0>>)
            /\ moved' = [moved EXCEPT ![t] = <<>>]
       ELSE /\ Goto(t, "ma_lock")
            /\ UNCHANGED moved
  /\ UNCHANGED <<q, mtx, cv, alive, calls, enqLog, deqLog, mark, ub>>

MaLock(t) ==
  /\ pc[t] = "ma_lock"
  /\ Lock(t, self[t])
  /\ Goto(t, "ma_copy")
  /\ UNCHANGED <<q, cv, alive, calls, enqLog, deqLog, mark, moved, ub>>

MaCopy(t) ==
  /\ pc[t] = "ma_copy"
  /\ CopyQ(t)
  /\ Goto(t, "ma_loop")
  /\ UNCHANGED <<mtx, cv, alive, calls, enqLog, deqLog, mark, moved, ub>>

\* the source is copied and not cleared
MaLoopNoClear(t) ==
  /\ pc[t] = "ma_loop"
  /\ Return(t, <<"assign", 0>>)
  /\ Unlock(t, self[t])
  /\ moved' = [moved EXCEPT ![t] = <<>>]
  /\ UNCHANGED <<q, cv, alive, calls, enqLog, deqLog, mark, ub>>

\* while (bq.q_.size() > 0); leaving the loop returns *this.
MaLoop(t) ==
  /\ pc[t] = "ma_loop"
  /\ IF Size(q[bq[t]]) > 0
       THEN /\ Goto(t, "ma_pop")
            /\ UNCHANGED <<mtx, moved>>
       ELSE /\ Return(t, <<"assign", 0>>)
            /\ Unlock(t, self[t])
            /\ moved' = [moved EXCEPT ![t] = <<>>]
  /\ UNCHANGED <<q, cv, alive, calls, enqLog, deqLog, mark, ub>>

MaPop(t) ==
  /\ pc[t] = "ma_pop"
  /\ PopOf(bq[t], "move")
  /\ Goto(t, "ma_loop")
  /\ UNCHANGED <<mtx, cv, alive, calls, enqLog, deqLog, mark, moved>>

\* ------------------------------------------------------- specifications
EnqStep(t) == EnqLock(t) \/ EnqPush(t) \/ EnqNotify(t)

DeqStep(t) ==
  \/ DeqLock(t) \/ DeqIf(t) \/ DeqFast(t) \/ DeqWhile(t)
  \/ DeqPred(t) \/ DeqRelock(t) \/ DeqSlow(t)

FrontStep(t) == FrontLock(t) \/ FrontIf(t) \/ FrontRet(t) \/ FrontThrow(t)

ClearStep(t) == ClearLock(t) \/ ClearLoop(t) \/ ClearPop(t)

SizeStep(t) == SizeLock(t) \/ SizeBody(t)

MoveCtorStep(t) == McLock(t) \/ McCopy(t) \/ McLoop(t) \/ McPop(t)

MoveAssignStep(t) == MaSelf(t) \/ MaLock(t) \/ MaCopy(t) \/ MaLoop(t) \/ MaPop(t)

\* The values some enQ call has been given, and the calls that are not enQ.
EnqCalls == Cardinality(Sent)
DeqCalls == calls - EnqCalls

\* One instance; threads call enQ and deQ only: an enQ call for each value
\* and as many deQ calls.
NextED ==
  \E t \in Threads :
    \/ \E v \in Values : EnqCall(t, "A", v)
    \/ DeqCalls < NValues /\ DeqCall(t, "A")
    \/ EnqStep(t)
    \/ DeqStep(t)
    \/ Spurious(t)

SpecED == Init /\ [][NextED]_vars

\* One instance; threads call enQ, deQ and size only.
NextSize ==
  \E t \in Threads :
    \/ calls < MaxCalls /\ \E v \in Values : EnqCall(t, "A", v)
    \/ calls < MaxCalls /\ DeqCall(t, "A")
    \/ calls < MaxCalls /\ SizeCall(t, "A")
    \/ EnqStep(t)
    \/ DeqStep(t)
    \/ SizeStep(t)
    \/ Spurious(t)

SpecSize == Init /\ [][NextSize]_vars

\* One instance; threads call enQ, deQ, front, clear and size.
NextQ ==
  \E t \in Threads :
    \/ calls < MaxCalls /\ \E v \in Values : EnqCall(t, "A", v)
    \/ calls < MaxCalls /\ DeqCall(t, "A")
    \/ calls < MaxCalls /\ FrontCall(t, "A")
    \/ calls < MaxCalls /\ ClearCall(t, "A")
    \/ calls < MaxCalls /\ SizeCall(t, "A")
    \/ EnqStep(t)
    \/ DeqStep(t)
    \/ FrontStep(t)
    \/ ClearStep(t)
    \/ SizeStep(t)
    \/ Spurious(t)

SpecQ == Init /\ [][NextQ]_vars

\* Everything thread t can do: call any operation on any instance, construct
\* an instance, or take the next step of the call it is in.
Step(t) ==
  \/ calls < MaxCalls /\ \E i \in Insts, v \in Values : EnqCall(t, i, v)
  \/ calls < MaxCalls /\ \E i \in Insts : DeqCall(t, i)
  \/ calls < MaxCalls /\ \E i \in Insts : FrontCall(t, i)
  \/ calls < MaxCalls /\ \E i \in Insts : ClearCall(t, i)
  \/ calls < MaxCalls /\ \E i \in Insts : SizeCall(t, i)
  \/ \E d \in Insts : Ctor(t, d)
  \/ calls < MaxCalls /\ \E d \in Insts, s \in Insts : MoveCtorCall(t, d, s)
  \/ calls < MaxCalls /\ \E d \in Insts, s \in Insts : MoveAssignCall(t, d, s)
  \/ EnqStep(t)
  \/ DeqStep(t)
  \/ FrontStep(t)
  \/ ClearStep(t)
  \/ SizeStep(t)
  \/ MoveCtorStep(t)
  \/ MoveAssignStep(t)
  \/ Spurious(t)

\* Two instances and every operation, called by any thread at any time.
Next == \E t \in Threads : Step(t)

Spec == Init /\ [][Next]_vars

\* Two instances; threads call enQ and deQ, construct and move.
NextMove ==
  \E t \in Threads :
    \/ calls < MaxCalls /\ \E i \in Insts, v \in Values : EnqCall(t, i, v)
    \/ calls < MaxCalls /\ \E i \in Insts : DeqCall(t, i)
    \/ \E d \in Insts : Ctor(t, d)
    \/ calls < MaxCalls /\ \E d \in Insts, s \in Insts : MoveCtorCall(t, d, s)
    \/ calls < MaxCalls /\ \E d \in Insts, s \in Insts : MoveAssignCall(t, d, s)
    \/ EnqStep(t)
    \/ DeqStep(t)
    \/ MoveCtorStep(t)
    \/ MoveAssignStep(t)
    \/ Spurious(t)

SpecMove == Init /\ [][NextMove]_vars

\* The thread that moves A into B, once; the others use A meanwhile.
Mover == 1

\* The mover has made no call yet.
NotMoved == pc[Mover] = "idle" /\ ret[Mover] = NoRet

\* B is move-constructed, or constructed and then move-assigned, from A by
\* one thread, once, while the other threads call enQ and deQ on A.
NextRace ==
  \/ Ctor(Mover, "B")
  \/ NotMoved /\ MoveCtorCall(Mover, "B", "A")
  \/ NotMoved /\ MoveAssignCall(Mover, "B", "A")
  \/ MoveCtorStep(Mover)
  \/ MoveAssignStep(Mover)
  \/ \E t \in Threads \ {Mover} :
       \/ \E v \in Values : EnqCall(t, "A", v)
       \/ DeqCalls < NValues + 1 /\ DeqCall(t, "A")
       \/ EnqStep(t)
       \/ DeqStep(t)
       \/ Spurious(t)

SpecRace == Init /\ [][NextRace]_vars

\* No other thread is inside a call: each is idle or blocked in cv_.
Alone(t) == \A u \in Threads \ {t} : pc[u] \in {"idle", "deq_wait"}

\* Two instances and every operation, with calls that do not overlap.
NextSeq == \E t \in Threads : Alone(t) /\ Step(t)

SpecSeq == Init /\ [][NextSeq]_vars

\* Two instances, with calls that do not overlap: one thread makes an enQ
\* call for each value and move-assigns, the other threads call deQ.
NextReplace ==
  \E t \in Threads :
    /\ Alone(t)
    /\ \/ t = Mover /\ Ctor(t, "B")
       \/ t = Mover /\ \E i \in Insts, v \in Values : EnqCall(t, i, v)
       \/ t = Mover /\ calls < NValues + 2 /\
            \E d \in Insts, s \in Insts : MoveAssignCall(t, d, s)
       \/ t # Mover /\ calls < NValues + 2 /\ \E i \in Insts : DeqCall(t, i)
       \/ EnqStep(t)
       \/ DeqStep(t)
       \/ MoveAssignStep(t)
       \/ Spurious(t)

SpecReplace == Init /\ [][NextReplace]_vars

\* ------------------------------------------------------ fair scheduling
\* One producer and the other threads consumers of one instance: the
\* producer makes an enQ call for each value and the consumers at most as
\* many deQ calls.
Producer == 1

ProducerCall == \E v \in Values : EnqCall(Producer, "A", v)

ConsumerCall(t) == t # Producer /\ DeqCalls < NValues /\ DeqCall(t, "A")

\* The steps of thread t that wait for nothing.
Run(t) ==
  \/ EnqPush(t) \/ EnqNotify(t)
  \/ DeqIf(t) \/ DeqFast(t) \/ DeqWhile(t) \/ DeqPred(t) \/ DeqSlow(t)

\* The steps of thread t that wait for mtx_.
Acquire(t) == EnqLock(t) \/ DeqLock(t) \/ DeqRelock(t)

NextLive ==
  \/ ProducerCall
  \/ \E t \in Threads :
       \/ ConsumerCall(t)
       \/ EnqStep(t)
       \/ DeqStep(t)
       \/ Spurious(t)

\* Every thread that can run does, a thread waiting for a mutex that is free
\* again and again gets it, and the producer makes all its calls.  Nothing
\* says a consumer calls deQ, or that a spurious wakeup happens.
SpecLive ==
  /\ Init
  /\ [][NextLive]_vars
  /\ WF_vars(ProducerCall)
  /\ \A t \in Threads : WF_vars(Run(t)) /\ SF_vars(Acquire(t))

\* The demonstration: the main thread is the producer and the thread it
\* starts, running test, the consumer.
Consumer == 2

\* What the main thread enqueues: the messages, then the sentinel.
DemoMsgs == [k \in 1..(NMsgs + 1) |-> IF k <= NMsgs THEN k ELSE Quit]

\* for (i ...) q.enQ(msg); q.enQ("quit"): the next value, while there is one.
DemoMain ==
  /\ EnqCalls < Len(DemoMsgs)
  /\ EnqCall(Producer, "A", DemoMsgs[EnqCalls + 1])

\* do { msg = pQ->deQ(); } while (msg != "quit");
DemoTest ==
  /\ ret[Consumer] # <<"deQ", Quit>>
  /\ DeqCall(Consumer, "A")

\* t.join() returns: the main thread has made its calls and test has returned.
Joined ==
  /\ pc[Producer] = "idle"
  /\ EnqCalls = Len(DemoMsgs)
  /\ pc[Consumer] = "idle"
  /\ ret[Consumer] = <<"deQ", Quit>>

NextDemo ==
  \/ DemoMain
  \/ DemoTest
  \/ \E t \in Threads :
       \/ EnqStep(t)
       \/ DeqStep(t)
       \/ Spurious(t)

\* The demonstration under fair scheduling: both threads go on while they
\* can.  Nothing says a spurious wakeup happens.
SpecDemo ==
  /\ Init
  /\ [][NextDemo]_vars
  /\ WF_vars(DemoMain)
  /\ WF_vars(DemoTest)
  /\ \A t \in Threads : WF_vars(Run(t)) /\ SF_vars(Acquire(t))

\* Two instances: one thread enqueues to either and move-assigns A to B,
\* the other threads call deQ on either.
NextWake ==
  \/ Ctor(Mover, "B")
  \/ calls < MaxCalls /\ \E i \in Insts, v \in Values : EnqCall(Mover, i, v)
  \/ calls < MaxCalls /\ MoveAssignCall(Mover, "B", "A")
  \/ EnqStep(Mover)
  \/ MoveAssignStep(Mover)
  \/ \E t \in Threads \ {Mover} :
       \/ calls < MaxCalls /\ \E i \in Insts : DeqCall(t, i)
       \/ DeqStep(t)
       \/ Spurious(t)

\* The steps of a move assignment that wait for nothing.
RunAssign(t) == MaSelf(t) \/ MaCopy(t) \/ MaLoop(t) \/ MaPop(t)

\* Fair scheduling of these threads.  Nothing says a call is made, or that a
\* spurious wakeup happens.
SpecWake ==
  /\ Init
  /\ [][NextWake]_vars
  /\ \A t \in Threads :
       /\ WF_vars(Run(t))
       /\ WF_vars(RunAssign(t))
       /\ SF_vars(Acquire(t))
       /\ SF_vars(MaLock(t))

\* The steps of thread t, in any of the five operations, that wait for
\* nothing.
RunAll(t) ==
  \/ Run(t)
  \/ FrontIf(t) \/ FrontRet(t) \/ FrontThrow(t)
  \/ ClearLoop(t) \/ ClearPop(t)
  \/ SizeBody(t)

\* The steps of thread t, in any of the five operations, that wait for mtx_.
AcquireAll(t) == Acquire(t) \/ FrontLock(t) \/ ClearLock(t) \/ SizeLock(t)

\* One instance: two threads call enQ, front, clear and size, and every
\* thread but the first calls deQ.
NextBusy ==
  \/ \E t \in {Producer, Consumer} :
       \/ calls < MaxCalls /\ \E v \in Values : EnqCall(t, "A", v)
       \/ calls < MaxCalls /\ FrontCall(t, "A")
       \/ calls < MaxCalls /\ ClearCall(t, "A")
       \/ calls < MaxCalls /\ SizeCall(t, "A")
  \/ \E t \in Threads :
       \/ calls < MaxCalls /\ t # Producer /\ DeqCall(t, "A")
       \/ EnqStep(t)
       \/ DeqStep(t)
       \/ FrontStep(t)
       \/ ClearStep(t)
       \/ SizeStep(t)
       \/ Spurious(t)

\* These threads under fair scheduling.  Nothing says a call is made, or that
\* a spurious wakeup happens.
SpecQFair ==
  /\ Init
  /\ [][NextBusy]_vars
  /\ \A t \in Threads : WF_vars(RunAll(t)) /\ SF_vars(AcquireAll(t))

\* ---------------------------------------------------------- properties
IsPrefix(a, b) == Len(a) <= Len(b) /\ \A k \in 1..Len(a) : a[k] = b[k]

NoDup(a) == \A j, k \in 1..Len(a) : a[j] = a[k] => j = k

AllIdle == \A t \in Threads : pc[t] = "idle"

\* The values that were pushed and are in no q_ now.
Gone == UNION {Range(enqLog[i]) : i \in Insts} \ UNION {Range(q[i]) : i \in Insts}

\* The number of places of sequence s that hold v.
Count(s, v) == Cardinality({k \in 1..Len(s) : s[k] = v})

DeqPcs ==
  {"deq_lock", "deq_if", "deq_fast", "deq_while", "deq_pred", "deq_wait",
   "deq_relock", "deq_slow"}

FrontPcs == {"front_lock", "front_if", "front_ret", "front_throw"}

EnqPcs == {"enq_lock", "enq_push", "enq_notify"}

ClearPcs == {"clear_lock", "clear_loop", "clear_pop"}

SizePcs == {"size_lock", "size_body"}

\* The blocks a thread executes between acquiring mtx_ and releasing it.
HoldPcs ==
  {"enq_push", "deq_if", "deq_fast", "deq_while", "deq_pred", "deq_slow",
   "front_if", "front_ret", "front_throw", "clear_loop", "clear_pop", "size_body"}

\* No thread can take a step of the call it is in.
Stuck ==
  \A t \in Threads :
    ~ENABLED (EnqStep(t) \/ DeqStep(t) \/ FrontStep(t) \/ ClearStep(t) \/ SizeStep(t))

\* C1 (SpecED): the values deQ calls have removed from an instance, in the
\* order of their removal, are the first values enQ calls appended to it, in
\* the order of their appending.
C1_Fifo == \A i \in Insts : IsPrefix(deqLog[i], enqLog[i])

\* Two values enqueued in the order 2, 1 have both been dequeued.
C1_Witness == Len(deqLog["A"]) >= 2 /\ deqLog["A"][1] > deqLog["A"][2]

\* C2 (SpecED): no value is returned by two deQ calls, every value enqueued
\* is either still in the queue or was returned by a deQ call, never both and
\* never neither, and once every call has returned each deQ call has returned
\* one value: N enQ calls and N deQ calls return N values and leave the
\* queue empty.
C2_Conservation ==
  LET e == enqLog["A"]
      d == deqLog["A"]
      r == q["A"]
  IN  /\ NoDup(d)
      /\ Range(d) \cap Range(r) = {}
      /\ Range(d) \cup Range(r) = Range(e)
      /\ Len(d) + Len(r) = Len(e)
      /\ AllIdle => Len(e) = EnqCalls /\ Len(d) = DeqCalls
      /\ AllIdle /\ EnqCalls = DeqCalls => r = <<>>

\* Two enQ calls and two deQ calls have all returned.
C2_Witness == AllIdle /\ EnqCalls = 2 /\ DeqCalls = 2 /\ Len(deqLog["A"]) = 2

\* C3 (SpecQ): a deQ call that found the queue empty returns only after an
\* enQ call has pushed onto the instance since, and returns a value pushed
\* since.
C3_BlockingWait ==
  [][\A t \in Threads :
       (mark[t] >= 0 /\ pc[t] # "idle" /\ pc'[t] = "idle") =>
         /\ Len(enqLog[self[t]]) > mark[t]
         /\ ret'[t][1] = "deQ"
         /\ \E k \in (mark[t] + 1)..Len(enqLog[self[t]]) :
              enqLog[self[t]][k] = ret'[t][2]]_vars

\* A deQ call that found the queue empty has returned.
C3_Witness == \E t \in Threads : pc[t] = "idle" /\ mark[t] >= 0 /\ ret[t][1] = "deQ"

\* C4 (SpecLive): with as many enQ calls as deQ calls and fair scheduling,
\* every deQ call returns.
C4_NoMissedWakeup == \A t \in Threads : (pc[t] \in DeqPcs) ~> (pc[t] = "idle")

\* A producer waits for the mutex held by a consumer that has found the
\* queue empty and has not blocked yet.
C4_Witness ==
  \E c \in Threads :
    /\ pc[c] = "deq_pred"
    /\ mtx["A"] = c
    /\ q["A"] = <<>>
    /\ pc[Producer] = "enq_lock"

\* C5 (SpecQ): front() that finds the queue empty ends with the exception
\* in its next step, which releases the mutex and changes neither the queue
\* nor the threads blocked in cv_; a thread inside front() is never blocked
\* in cv_ and the queue does not change while it holds the mutex.
C5_FrontEmpty ==
  [][\A t \in Threads :
       /\ (pc[t] = "front_if" /\ Size(q[self[t]]) = 0 /\ pc'[t] # pc[t]) =>
            pc'[t] = "front_throw" /\ UNCHANGED <<q, cv, mtx>>
       /\ pc[t] = "front_throw" =>
            /\ q' = q
            /\ pc'[t] # pc[t] =>
                 /\ pc'[t] = "idle"
                 /\ ret'[t] = <<"throw", 0>>
                 /\ cv' = cv
                 /\ mtx'[self[t]] = NoThread
       /\ pc[t] \in FrontPcs => \A i \in Insts : t \notin cv[i]]_vars

\* front() has thrown, and a later call has taken the mutex.
C5_Witness ==
  \E t, u \in Threads :
    /\ ret[t] = <<"throw", 0>>
    /\ pc[t] = "idle"
    /\ mtx["A"] = u

\* C6 (SpecQ): front() that finds the queue non-empty returns its first
\* element, which is what a deQ call taking an element then returns, and the
\* queue does not change while a thread is inside front().
C6_FrontPeek ==
  [][\A t \in Threads :
       /\ pc[t] \in {"front_if", "front_ret"} => q' = q
       /\ (pc[t] = "front_ret" /\ pc'[t] = "idle") =>
            ret'[t] = <<"front", Head(q[self[t]])>>
       /\ (pc[t] \in {"deq_fast", "deq_slow"} /\ pc'[t] = "idle") =>
            ret'[t] = <<"deQ", Head(q[self[t]])>>]_vars

\* front() has returned the first of two elements, and both are in the queue.
C6_Witness ==
  \E t \in Threads :
    /\ pc[t] = "idle"
    /\ ret[t][1] = "front"
    /\ Len(q["A"]) = 2
    /\ ret[t][2] = q["A"][1]
    /\ ret[t][2] # q["A"][2]

\* C7 (SpecSeq): a move construction or move assignment from another
\* instance ends with the destination holding what the source held when the
\* move was called, in the same order, and with the source empty.
C7_Move ==
  [][\A t \in Threads :
       (pc[t] \in {"mc_loop", "ma_loop"} /\ pc'[t] = "idle") =>
         /\ q'[self[t]] = moved[t]
         /\ q'[bq[t]] = <<>>]_vars

\* A move has returned: B holds the two values enqueued to A, and A is empty.
C7_Witness ==
  \E t \in Threads :
    /\ pc[t] = "idle"
    /\ ret[t][1] \in {"ctor", "assign"}
    /\ Len(enqLog["A"]) = 2
    /\ enqLog["B"] = <<>>
    /\ q["B"] = enqLog["A"]
    /\ q["A"] = <<>>

\* The instances whose q_ the block thread t executes next reads or writes.
Accesses(t) ==
  CASE pc[t] \in {"enq_push", "deq_if", "deq_fast", "deq_while", "deq_pred",
                  "deq_slow", "front_if", "front_ret", "clear_loop",
                  "clear_pop", "size_body"} -> {self[t]}
    [] pc[t] \in {"mc_copy", "ma_copy"} -> {self[t], bq[t]}
    [] pc[t] \in {"mc_loop", "mc_pop", "ma_loop", "ma_pop"} -> {bq[t]}
    [] OTHER -> {}

\* C8 (SpecMove): a thread about to read or write the q_ of an instance
\* holds the mutex of that instance.
C8_LockDiscipline == \A t \in Threads : \A i \in Accesses(t) : mtx[i] = t

\* C9 (SpecQ): clear() returns with the queue empty; a deQ call that finds
\* the queue empty blocks in cv_ and none takes the front of an empty queue;
\* and a value that has left the queue is never in it again.
C9_Clear ==
  [][/\ \A t \in Threads :
          /\ (pc[t] = "clear_loop" /\ pc'[t] = "idle") => q'[self[t]] = <<>>
          /\ (pc[t] = "deq_pred" /\ Size(q[self[t]]) = 0 /\ pc'[t] # pc[t]) =>
               pc'[t] = "deq_wait" /\ t \in cv'[self[t]]
          /\ pc[t] \in {"deq_fast", "deq_slow"} => Size(q[self[t]]) > 0
     /\ \A i \in Insts :
          Range(enqLog[i]) \ Range(q[i]) \subseteq Range(enqLog'[i]) \ Range(q'[i])]_vars

\* clear() has returned after an enQ, nothing was dequeued, and a consumer is
\* blocked on the empty queue.
C9_Witness ==
  \E t, u \in Threads :
    /\ ret[t] = <<"clear", 0>>
    /\ pc[u] = "deq_wait"
    /\ Len(enqLog["A"]) > 0
    /\ deqLog["A"] = <<>>
    /\ q["A"] = <<>>

\* C10 (SpecSize): size() returns the length the queue has while the caller
\* holds the mutex and changes neither the queue nor the threads blocked in
\* cv_; that length is the number of values pushed minus the number of values
\* dequeued, and is not negative.
C10_Size ==
  [][/\ \A t \in Threads :
          (pc[t] = "size_body" /\ pc'[t] = "idle") =>
            /\ ret'[t] = <<"size", Len(q[self[t]])>>
            /\ ret'[t][2] = Len(enqLog[self[t]]) - Len(deqLog[self[t]])
            /\ ret'[t][2] >= 0
            /\ UNCHANGED <<q, cv, enqLog, deqLog>>
     /\ \A i \in Insts : Len(q[i]) = Len(enqLog[i]) - Len(deqLog[i])]_vars

\* size() has returned 0 after one enQ and one deQ.
C10_Witness ==
  \E t \in Threads :
    /\ ret[t] = <<"size", 0>>
    /\ Len(enqLog["A"]) = 1
    /\ Len(deqLog["A"]) = 1

\* C11 (SpecQFair): under fair scheduling every enQ, front, clear and size
\* call returns, whatever number of deQ calls are blocked in cv_ of the
\* instance, and a thread inside one of these calls is never blocked in cv_.
C11_NeverSuspend ==
  /\ \A t \in Threads :
       (pc[t] \in EnqPcs \cup FrontPcs \cup ClearPcs \cup SizePcs) ~> (pc[t] = "idle")
  /\ [](\A t \in Threads :
         pc[t] \in EnqPcs \cup FrontPcs \cup ClearPcs \cup SizePcs =>
           \A i \in Insts : t \notin cv[i])

\* Two deQ calls are blocked in cv_ and a front, clear or size call of a
\* third thread has returned.
C11_Witness ==
  \E t \in Threads :
    /\ pc[t] = "idle"
    /\ ret[t][1] \in {"throw", "clear", "size"}
    /\ Cardinality(cv["A"]) >= 2
    /\ \A w \in cv["A"] : pc[w] = "deq_wait"

\* C12 (SpecSeq): move assignment of an instance to itself returns in its
\* first step, which changes no q_, acquires no mutex and unblocks no thread:
\* only the caller moves, and it holds no mutex during the call.
C12_SelfAssign ==
  [][\A t \in Threads :
       (pc[t] = "ma_self" /\ self[t] = bq[t]) =>
         /\ \A i \in Insts : mtx[i] # t
         /\ pc'[t] # pc[t] =>
              /\ pc'[t] = "idle"
              /\ ret'[t] = <<"assign", 0>>
              /\ UNCHANGED <<q, mtx, cv>>
              /\ \A w \in Threads \ {t} : pc'[w] = pc[w]]_vars

\* A = std::move(A) has returned and A holds the two values enqueued to it,
\* in their order.
C12_Witness ==
  \E t \in Threads :
    /\ pc[t] = "idle"
    /\ ret[t] = <<"assign", 0>>
    /\ alive = {"A"}
    /\ Len(q["A"]) = 2
    /\ q["A"] = enqLog["A"]

\* C13 (SpecED): the last step of an enQ call unblocks exactly one of the
\* threads blocked in cv_ of its instance when there is one and none
\* otherwise, and leaves the others blocked; and no more deQ calls have
\* returned than values were pushed, so that of k deQ calls waiting on an empty
\* queue one enQ lets at most one return.
C13_NotifyOne ==
  [][/\ \A t \in Threads :
          (pc[t] = "enq_notify" /\ pc'[t] = "idle") =>
            LET i == self[t]
                released == cv[i] \ cv'[i]
            IN  /\ cv'[i] \subseteq cv[i]
                /\ Cardinality(released) = IF cv[i] = {} THEN 0 ELSE 1
                /\ \A w \in released : pc[w] = "deq_wait" /\ pc'[w] = "deq_relock"
                /\ \A w \in Threads \ (released \cup {t}) : pc'[w] = pc[w]
                /\ \A j \in Insts \ {i} : cv'[j] = cv[j]
     /\ \A i \in Insts : Len(deqLog'[i]) <= Len(enqLog'[i])]_vars

\* Two deQ calls found the queue empty before the one enQ call pushed; the
\* enQ call has returned, one deQ call has returned its value and the other
\* is blocked in cv_.
C13_Witness ==
  \E t, u \in Threads :
    /\ t # u
    /\ mark[t] = 0 /\ pc[t] = "idle" /\ ret[t][1] = "deQ"
    /\ mark[u] = 0 /\ pc[u] = "deq_wait" /\ u \in cv["A"]
    /\ Len(enqLog["A"]) = 1
    /\ \A p \in Threads : pc[p] \notin EnqPcs

C15_ClearSilent ==
  [][\A t \in Threads :
       /\ (pc[t] \in ClearPcs /\ pc'[t] # pc[t]) =>
            /\ cv' = cv
            /\ deqLog' = deqLog
            /\ \A w \in Threads \ {t} : pc'[w] = pc[w] /\ ret'[w] = ret[w]
       /\ pc[t] \in {"clear_loop", "clear_pop"} => deqLog' = deqLog]_vars

\* A deQ call blocked on the empty queue; an enQ call has pushed a value and
\* has not called notify_one() yet; clear() has removed the value and
\* returned, and the deQ call is still blocked.
C15_Witness ==
  \E t, u, p \in Threads :
    /\ pc[t] = "idle" /\ ret[t] = <<"clear", 0>>
    /\ pc[u] = "deq_wait" /\ u \in cv["A"] /\ mark[u] = 0
    /\ pc[p] = "enq_notify"
    /\ Len(enqLog["A"]) = 1
    /\ q["A"] = <<>>

\* C16 (SpecDemo): what test has received is always the first values the
\* main thread enqueued, in their order, and under fair scheduling the run
\* ends, and stays, with test having received every message and then the
\* sentinel and returned, join() returned and the queue empty.
C16_Sentinel ==
  /\ [](IsPrefix(deqLog["A"], DemoMsgs))
  /\ [](ret[Consumer] = <<"deQ", Quit>> => deqLog["A"] = DemoMsgs)
  /\ <>[](Joined /\ deqLog["A"] = DemoMsgs /\ q["A"] = <<>> /\ ~ENABLED DemoTest)

\* join() has returned; test blocked on the empty queue before it received
\* the sentinel.
C16_Witness ==
  /\ Joined
  /\ deqLog["A"] = DemoMsgs
  /\ q["A"] = <<>>
  /\ mark[Consumer] = NMsgs

\* C17 (SpecRace): when B is moved from A while other threads call enQ and
\* deQ on A, then once the move has returned every value pushed onto A is in
\* exactly one place: in A's q_, in B's q_, or returned by one deQ call.
C17_MoveConservation ==
  (pc[Mover] = "idle" /\ ret[Mover][1] \in {"ctor", "assign"}) =>
    \A v \in Range(enqLog["A"]) :
      Count(q["A"], v) + Count(q["B"], v) + Count(deqLog["A"], v) + Count(deqLog["B"], v) = 1

\* C18 (SpecWake): whenever a thread is blocked in cv_ of an instance whose
\* q_ is not empty, whether an enQ call or a move assignment put the elements
\* there, then under fair scheduling later no thread is blocked in it or its q_
\* is empty.
C18_WakeOnAssign ==
  \A i \in Insts : (cv[i] # {} /\ q[i] # <<>>) ~> (cv[i] = {} \/ q[i] = <<>>)

\* C19 (SpecReplace): with calls that do not overlap, the copy of a move
\* assignment from another instance leaves the destination with exactly what
\* the source held when the call was made, whatever the destination held; what
\* the destination held is then in no q_, and a value that is in no q_ never
\* is in one again and is not returned by a later deQ call.
C19_Replace ==
  [][/\ \A t \in Threads :
          /\ (pc[t] = "ma_copy" /\ pc'[t] = "ma_loop") =>
               /\ q'[self[t]] = moved[t]
               /\ Range(q[self[t]]) \subseteq Gone'
          /\ (pc[t] = "ma_loop" /\ pc'[t] = "idle") =>
               q'[self[t]] = moved[t] /\ q'[bq[t]] = <<>>
     /\ Gone \subseteq Gone'
     /\ \A v \in Gone : \A i \in Insts : Count(deqLog'[i], v) = Count(deqLog[i], v)]_vars

\* B held a value of its own when A was move-assigned to it; a later deQ
\* call on B has returned the value enqueued to A, and B is empty.
C19_Witness ==
  \E t \in Threads :
    /\ pc[t] = "idle"
    /\ ret[t][1] = "deQ"
    /\ Len(enqLog["A"]) = 1
    /\ Len(enqLog["B"]) = 1
    /\ deqLog["B"] = enqLog["A"]
    /\ deqLog["A"] = <<>>
    /\ q["A"] = <<>>
    /\ q["B"] = <<>>

\* C20 (SpecQ): when no thread can take a step of the call it is in, every
\* thread that is inside a call is blocked in cv_ of an instance whose q_ is
\* empty and whose mutex is free; and a mutex is held only by a thread between
\* the acquisition and the release of its call, never by one that has
\* returned, thrown or blocked in cv_.
C20_DeadlockFree ==
  /\ Stuck =>
       \A t \in Threads :
         pc[t] # "idle" =>
           /\ pc[t] = "deq_wait"
           /\ t \in cv[self[t]]
           /\ q[self[t]] = <<>>
           /\ mtx[self[t]] = NoThread
  /\ \A i \in Insts :
       mtx[i] # NoThread => pc[mtx[i]] \in HoldPcs /\ self[mtx[i]] = i

\* No thread can take a step: an enQ call and a deQ call that took its value
\* have returned, and a second deQ call is blocked on the empty queue.
C20_Witness ==
  /\ Stuck
  /\ Len(enqLog["A"]) = 1
  /\ deqLog["A"] = enqLog["A"]
  /\ \E t \in Threads : pc[t] = "deq_wait"

====
